---- MODULE Spec2Model ----
(***************************************************************************)
(* Startup of configurable-app: src/main.ts fetches assets/settings.json,  *)
(* parses it and bootstraps AppModule with the parsed value provided under *)
(* the SETTINGS token.  AppModule (src/app/app.module.ts) registers an     *)
(* APP_INITIALIZER that runs SettingsInitializerService.initializeSettings *)
(* and a constant BASE_PATH; AppComponent reads SettingsService.settings   *)
(* and calls BooksService.booksGet().                                      *)
(***************************************************************************)
EXTENDS Naturals, Sequences, FiniteSets, TLC

VARIABLES
    pc,               \* position of the main.ts promise chain / bootstrap
    now,              \* the clock read by new Date().getTime()
    production,       \* environment.production
    cacheBuster,      \* main.ts: const cacheBuster
    requests,         \* settings requests issued so far, in order
    fetchState,       \* settlement of fetch(...).then(response => response.json())
    response,         \* the Response the fetch resolved with
    parsed,           \* the value response.json() resolved with
    chainError,       \* the rejection travelling down the main.ts chain
    prodMode,         \* enableProdMode() has been called
    bootstrapCalls,   \* number of bootstrapModule(AppModule) calls
    platformSettings, \* value registered under the SETTINGS token
    settingsService,  \* SettingsService instance
    initializer,      \* SettingsInitializerService instance
    bootstrapError,   \* the rejection of bootstrapModule(AppModule)
    appComponent,     \* AppComponent instance
    booksService,     \* BooksService instance
    booksRequests,    \* URLs addressed by BooksService operations
    injectedConfiguration, \* basePath of the Configuration the injector holds
    injectedBasePath, \* value the injector holds for the BASE_PATH token
    defaultHeaders,   \* BooksService.defaultHeaders
    credential,       \* what configuration.lookupCredential('Auth0') returns
    booksSent,        \* operation, method and headers of each request issued
    booksError,       \* the Error the latest BooksService call threw
    booksCall,        \* the latest BooksService call: operation and arguments
    console           \* console.error calls, in order

vars == <<pc, now, production, cacheBuster, requests, fetchState, response,
          parsed, chainError, prodMode, bootstrapCalls, platformSettings,
          settingsService, initializer, bootstrapError, appComponent,
          booksService, booksRequests, injectedConfiguration,
          injectedBasePath, defaultHeaders, credential, booksSent,
          booksError, booksCall, console>>

----------------------------------------------------------------------------
(* Bounds *)

MaxTime == 2

----------------------------------------------------------------------------
(* JavaScript values that can travel as Settings *)

JsUndefined == [t |-> "undefined", s |-> "", bt |-> "undefined", bs |-> ""]
JsNull == [t |-> "null", s |-> "", bt |-> "undefined", bs |-> ""]
JsString(x) == [t |-> "string", s |-> x, bt |-> "undefined", bs |-> ""]
JsNumber(x) == [t |-> "number", s |-> x, bt |-> "undefined", bs |-> ""]
JsObject(member) == [t |-> "object", s |-> "", bt |-> member.t, bs |-> member.s]

\* interface Settings { baseUrl: string }
Settings(v) == v.t = "object" /\ v.bt = "string"

\* no error
NoError == [t |-> "none", name |-> "none", message |-> ""]

\* no Response
NoResponse == [status |-> 0, body |-> <<>>]

----------------------------------------------------------------------------
(* Response bodies, as token sequences *)

Tok(k, v) == [k |-> k, v |-> v]
LBrace == Tok("punct", "{")
RBrace == Tok("punct", "}")
Colon == Tok("punct", ":")
StrTok(x) == Tok("string", x)
NumTok(x) == Tok("number", x)
NullTok == Tok("null", "null")
JunkTok(x) == Tok("junk", x)

UrlA == "https://api.example.test"
UrlB == "https://api.angular.schule"

BodySettings(u) == <<LBrace, StrTok("baseUrl"), Colon, StrTok(u), RBrace>>

Bodies ==
    { BodySettings(UrlA),
      BodySettings(UrlB),
      <<LBrace, RBrace>>,
      <<NullTok>>,
      <<LBrace, StrTok("baseUrl"), Colon, NumTok("42"), RBrace>>,
      <<LBrace, StrTok("error"), Colon, StrTok("Internal Server Error"), RBrace>>,
      <<JunkTok("<html>")>>,
      <<LBrace, StrTok("baseUrl"), Colon>>,
      <<>> }

Statuses == {200, 404, 500}

\* a scalar JSON token
IsScalar(tok) == tok.k \in {"string", "number", "null"}

ScalarValue(tok) ==
    IF tok.k = "string" THEN JsString(tok.v)
    ELSE IF tok.k = "number" THEN JsNumber(tok.v)
    ELSE JsNull

\* JSON.parse on the token sequence: a scalar, {} or an object with one
\* scalar member; everything else is a SyntaxError.
JSONParse(toks) ==
    IF Len(toks) = 1 /\ IsScalar(toks[1])
    THEN [ok |-> TRUE, value |-> ScalarValue(toks[1])]
    ELSE IF toks = <<LBrace, RBrace>>
    THEN [ok |-> TRUE, value |-> JsObject(JsUndefined)]
    ELSE IF /\ Len(toks) = 5
            /\ toks[1] = LBrace
            /\ toks[2].k = "string"
            /\ toks[3] = Colon
            /\ IsScalar(toks[4])
            /\ toks[5] = RBrace
    THEN [ok |-> TRUE,
          value |-> IF toks[2].v = "baseUrl"
                    THEN JsObject(ScalarValue(toks[4]))
                    ELSE JsObject(JsUndefined)]
    ELSE [ok |-> FALSE, value |-> JsUndefined]

----------------------------------------------------------------------------
(* Libraries used by the program *)

SettingsPath == "assets/settings.json"

Request(via, buster) ==
    [via |-> via, path |-> SettingsPath, cacheBuster |-> buster,
     settled |-> FALSE]

Settle(reqs, i) == [reqs EXCEPT ![i].settled = TRUE]

\* an Error object with a name and a message
Err(name, message) == [t |-> "Error", name |-> name, message |-> message]

\* other values a promise can be rejected with: an object that has no
\* message property, null, undefined
RejectObject == [t |-> "object", name |-> "Object", message |-> ""]
RejectNull == [t |-> "null", name |-> "", message |-> ""]
RejectUndefined == [t |-> "undefined", name |-> "", message |-> ""]

\* e.message can be read of every value but null and undefined
HasProperties(e) == e.t \notin {"null", "undefined"}

\* `${e.message}`: the message of an Error, "undefined" for an object that
\* has no message property
MessageText(e) == IF e.t = "Error" THEN e.message ELSE "undefined"

\* Response.json(): parses the body whatever the status is
ResponseJson(resp) == JSONParse(resp.body)

\* HttpClient.get<T>(url) with the default responseType 'json': an error for
\* a status outside 200..299 and for an unparseable body, null for an empty
\* body.
HttpClientGet(status, body) ==
    IF status < 200 \/ status >= 300
    THEN [ok |-> FALSE, value |-> JsUndefined]
    ELSE IF body = <<>>
    THEN [ok |-> TRUE, value |-> JsNull]
    ELSE JSONParse(body)

----------------------------------------------------------------------------
(* book-monkey-api: BooksService *)

DefaultBasePath == "http://localhost"

\* values injected for BASE_PATH: string | string[] | null
BasePathString(x) == [t |-> "string", items |-> <<x>>]
BasePathArray(xs) == [t |-> "array", items |-> xs]
BasePathNull == [t |-> "null", items |-> <<>>]

\* a value injected for BASE_PATH that is neither a string nor an array
BasePathNumber == [t |-> "number", items |-> <<>>]

\* the constructor without the array case: only a string BASE_PATH is taken
BooksServiceConstructorNoArray(cfgBasePath, basePath) ==
    IF cfgBasePath.t = "string"
    THEN cfgBasePath.s
    ELSE IF basePath.t # "string" THEN DefaultBasePath ELSE basePath.items[1]

\* the constructor without the fallback to this.basePath: a BASE_PATH that is
\* not a string is stored as it is and prints as "undefined"
BooksServiceConstructorNoDefault(cfgBasePath, basePath) ==
    IF cfgBasePath.t = "string"
    THEN cfgBasePath.s
    ELSE LET first == IF basePath.t = "array" /\ Len(basePath.items) > 0
                      THEN BasePathString(basePath.items[1])
                      ELSE basePath
         IN IF first.t # "string" THEN "undefined" ELSE first.items[1]

\* the constructor with the precedence reversed: a BASE_PATH that is given
\* replaces the basePath of the injected Configuration
BooksServiceConstructorBasePathFirst(cfgBasePath, basePath) ==
    LET first == IF basePath.t = "array" /\ Len(basePath.items) > 0
                 THEN BasePathString(basePath.items[1])
                 ELSE basePath
    IN IF first.t = "string"
       THEN first.items[1]
       ELSE IF cfgBasePath.t = "string" THEN cfgBasePath.s
                                        ELSE DefaultBasePath

\* constructor(httpClient, basePath, configuration): the resulting
\* configuration.basePath; cfgBasePath is the basePath of the injected
\* Configuration (JsUndefined when none was injected or it has none)
BooksServiceConstructor(cfgBasePath, basePath) ==
    IF cfgBasePath.t = "string"
    THEN cfgBasePath.s
    ELSE LET first == IF basePath.t = "array" /\ Len(basePath.items) > 0
                      THEN BasePathString(basePath.items[1])
                      ELSE basePath
         IN IF first.t # "string" THEN DefaultBasePath ELSE first.items[1]

\* HttpHeaders as a set of <<name, value>>; set() returns a new instance
\* and leaves the one it is called on as it was
HttpHeadersSet(headers, name, value) ==
    {h \in headers : h[1] # name} \cup {<<name, value>>}

HeaderNames(headers) == {h[1] : h \in headers}

\* x === null || x === undefined
IsNullOrUndefined(v) == v.t \in {"null", "undefined"}

\* if (localVarCredential)
Truthy(v) == ~IsNullOrUndefined(v) /\ v.s # ""

Operations ==
    {"booksDelete", "booksGet", "booksIsbnCheckGet", "booksIsbnDelete",
     "booksIsbnGet", "booksIsbnPut", "booksIsbnRatePost", "booksPost",
     "booksSearchSearchTermGet", "secureBooksGet"}

ParameterNames == {"isbn", "book", "rating", "searchTerm"}

\* a call that passes none of the parameters
NoArgs == [p \in ParameterNames |-> JsUndefined]

NoCall == [op |-> "none", args |-> NoArgs]

\* the required parameters an operation forgets to test: booksIsbnPut does
\* not test book
RequiredParametersNoBook(op) ==
    CASE op \in {"booksIsbnCheckGet", "booksIsbnDelete", "booksIsbnGet",
                 "booksIsbnPut"}
              -> <<"isbn">>
      [] op = "booksIsbnRatePost" -> <<"isbn", "rating">>
      [] op = "booksPost" -> <<"book">>
      [] op = "booksSearchSearchTermGet" -> <<"searchTerm">>
      [] OTHER -> <<>>

\* the parameters an operation tests at its start, in the order of the tests
RequiredParameters(op) ==
    CASE op \in {"booksIsbnCheckGet", "booksIsbnDelete", "booksIsbnGet"}
              -> <<"isbn">>
      [] op = "booksIsbnPut" -> <<"isbn", "book">>
      [] op = "booksIsbnRatePost" -> <<"isbn", "rating">>
      [] op = "booksPost" -> <<"book">>
      [] op = "booksSearchSearchTermGet" -> <<"searchTerm">>
      [] OTHER -> <<>>

\* the parameter whose test throws: the first one that is null or undefined,
\* "" when every test passes
MissingParameter(op, args) ==
    LET required == RequiredParameters(op)
        missing == {i \in 1..Len(required) :
                      IsNullOrUndefined(args[required[i]])}
    IN IF missing = {}
       THEN ""
       ELSE required[CHOOSE i \in missing : \A j \in missing : i <= j]

\* throw new Error('Required parameter ... was null or undefined when ...')
RequiredParameterError(param, op) ==
    Err("Error", "Required parameter " \o param
                   \o " was null or undefined when calling " \o op \o ".")

\* configuration.encodeParam of a path parameter: the text, URI-encoded
EncodeParam(v) == IF v.s = "9 8" THEN "9%208" ELSE v.s

\* the URL each operation hands to httpClient
booksDelete(service) == service.basePath \o "/books"

\* booksGet(): the URL handed to httpClient.get
booksGet(service) == service.basePath \o "/books"

booksIsbnCheckGet(service, isbn) ==
    service.basePath \o "/books/" \o EncodeParam(isbn) \o "/check"

booksIsbnDelete(service, isbn) ==
    service.basePath \o "/books/" \o EncodeParam(isbn)

booksIsbnGet(service, isbn) ==
    service.basePath \o "/books/" \o EncodeParam(isbn)

booksIsbnPut(service, isbn) ==
    service.basePath \o "/books/" \o EncodeParam(isbn)

booksIsbnRatePost(service, isbn) ==
    service.basePath \o "/books/" \o EncodeParam(isbn) \o "/rate"

booksPost(service) == service.basePath \o "/books"

booksSearchSearchTermGet(service, searchTerm) ==
    service.basePath \o "/books/search/" \o EncodeParam(searchTerm)

secureBooksGet(service) == service.basePath \o "/secure/books"

Url(service, op, args) ==
    CASE op = "booksDelete" -> booksDelete(service)
      [] op = "booksGet" -> booksGet(service)
      [] op = "booksIsbnCheckGet" -> booksIsbnCheckGet(service, args.isbn)
      [] op = "booksIsbnDelete" -> booksIsbnDelete(service, args.isbn)
      [] op = "booksIsbnGet" -> booksIsbnGet(service, args.isbn)
      [] op = "booksIsbnPut" -> booksIsbnPut(service, args.isbn)
      [] op = "booksIsbnRatePost" -> booksIsbnRatePost(service, args.isbn)
      [] op = "booksPost" -> booksPost(service)
      [] op = "booksSearchSearchTermGet"
              -> booksSearchSearchTermGet(service, args.searchTerm)
      [] op = "secureBooksGet" -> secureBooksGet(service)

\* this.httpClient.delete / get / put / post
Method(op) ==
    CASE op \in {"booksDelete", "booksIsbnDelete"} -> "DELETE"
      [] op = "booksIsbnPut" -> "PUT"
      [] op \in {"booksIsbnRatePost", "booksPost"} -> "POST"
      [] OTHER -> "GET"

\* the operations that send a body: const consumes = ['application/json']
Consumes(op) == op \in {"booksIsbnPut", "booksIsbnRatePost", "booksPost"}

\* the headers with the bearer token added by every operation, not only by
\* secureBooksGet
RequestHeadersBearerEverywhere(op, headers, cred) ==
    LET authorized ==
            IF Truthy(cred)
            THEN HttpHeadersSet(headers, "Authorization", "Bearer " \o cred.s)
            ELSE headers
        accepted == HttpHeadersSet(authorized, "Accept", "application/json")
    IN IF Consumes(op)
       THEN HttpHeadersSet(accepted, "Content-Type", "application/json")
       ELSE accepted

\* localVarHeaders of one call: this.defaultHeaders, then Authorization
\* (secureBooksGet with a credential), Accept, and Content-Type when a body
\* is sent
RequestHeaders(op, headers, cred) ==
    LET authorized ==
            IF op = "secureBooksGet" /\ Truthy(cred)
            THEN HttpHeadersSet(headers, "Authorization", "Bearer " \o cred.s)
            ELSE headers
        accepted == HttpHeadersSet(authorized, "Accept", "application/json")
    IN IF Consumes(op)
       THEN HttpHeadersSet(accepted, "Content-Type", "application/json")
       ELSE accepted

\* what is recorded of a request next to its URL
Sent(op, headers, cred) ==
    [op |-> op, method |-> Method(op),
     headers |-> RequestHeaders(op, headers, cred)]

----------------------------------------------------------------------------
(* AppModule providers *)

\* { provide: BASE_PATH, useValue: "https://api.angular.schule" }
BASE_PATH == BasePathString("https://api.angular.schule")

----------------------------------------------------------------------------
(* Initial state: the script has not run yet *)

Init ==
    /\ pc = "NotStarted"
    /\ now = 0
    /\ production \in BOOLEAN
    /\ cacheBuster = 0
    /\ requests = <<>>
    /\ fetchState = "idle"
    /\ response = NoResponse
    /\ parsed = JsUndefined
    /\ chainError = NoError
    /\ prodMode = FALSE
    /\ bootstrapCalls = 0
    /\ platformSettings = JsUndefined
    /\ settingsService = [constructed |-> FALSE, settings |-> JsUndefined]
    /\ initializer = [constructed |-> FALSE, cacheBuster |-> 0]
    /\ bootstrapError = NoError
    /\ appComponent = [constructed |-> FALSE, settings |-> JsUndefined]
    /\ booksService = [constructed |-> FALSE, basePath |-> ""]
    /\ booksRequests = <<>>
    /\ injectedConfiguration = JsUndefined
    /\ injectedBasePath = BASE_PATH
    /\ defaultHeaders = {}
    /\ credential = JsUndefined
    /\ booksSent = <<>>
    /\ booksError = NoError
    /\ booksCall = NoCall
    /\ console = <<>>

----------------------------------------------------------------------------
(* The clock *)

Tick ==
    /\ now < MaxTime
    /\ now' = now + 1
    /\ UNCHANGED <<pc, production, cacheBuster, requests, fetchState,
                   response, parsed, chainError, prodMode, bootstrapCalls,
                   platformSettings, settingsService, initializer,
                   bootstrapError, appComponent, booksService, booksRequests,
                   injectedConfiguration, injectedBasePath, defaultHeaders,
                   credential, booksSent, booksError, booksCall, console>>

\* what the injector holds for the constructor of BooksService
injected == <<injectedConfiguration, injectedBasePath>>

client == <<defaultHeaders, credential, booksSent, booksError, booksCall>>

angular == <<platformSettings, settingsService, initializer, bootstrapError,
             appComponent, booksService, booksRequests, injected, client>>

----------------------------------------------------------------------------
(* src/main.ts *)

\* Start without waiting: the fetch is issued and bootstrapModule(AppModule)
\* is called right away, outside the then-callback
StartParallel ==
    /\ pc = "NotStarted"
    /\ cacheBuster' = now
    /\ requests' = Append(requests, Request("fetch", now))
    /\ fetchState' = "pending"
    /\ bootstrapCalls' = bootstrapCalls + 1
    /\ pc' = "BootstrapInitiated"
    /\ UNCHANGED <<now, production, response, parsed, chainError, prodMode,
                   console, angular>>

\* const cacheBuster = new Date().getTime(); fetch(`assets/settings.json?...`)
Start ==
    /\ pc = "NotStarted"
    /\ cacheBuster' = now
    /\ requests' = Append(requests, Request("fetch", now))
    /\ fetchState' = "pending"
    /\ pc' = "FetchPending"
    /\ UNCHANGED <<now, production, response, parsed, chainError, prodMode,
                   bootstrapCalls, console, angular>>

\* the server answers: fetch resolves with a Response for every status
FetchResolve ==
    /\ pc = "FetchPending"
    /\ \E status \in Statuses, body \in Bodies :
          response' = [status |-> status, body |-> body]
    /\ requests' = Settle(requests, 1)
    /\ pc' = "FetchResolved"
    /\ UNCHANGED <<now, production, cacheBuster, fetchState, parsed,
                   chainError, prodMode, bootstrapCalls, console, angular>>

\* FetchReject with a fallback: a network failure is answered with built-in
\* default settings and the chain goes on
FetchRejectFallback ==
    /\ pc = "FetchPending"
    /\ requests' = Settle(requests, 1)
    /\ fetchState' = "rejected"
    /\ parsed' = JsObject(JsString(DefaultBasePath))
    /\ pc' = "JsonResolved"
    /\ UNCHANGED <<now, production, cacheBuster, response, chainError,
                   prodMode, bootstrapCalls, console, angular>>

\* the request fails on the network: fetch rejects with a TypeError
FetchReject ==
    /\ pc = "FetchPending"
    /\ requests' = Settle(requests, 1)
    /\ fetchState' = "rejected"
    /\ chainError' = Err("TypeError", "Failed to fetch")
    /\ pc' = "ChainRejected"
    /\ UNCHANGED <<now, production, cacheBuster, response, parsed, prodMode,
                   bootstrapCalls, console, angular>>

\* ThenJson with the parse failure swallowed: response.json().catch(() => ({}))
ThenJsonSwallow ==
    /\ pc = "FetchResolved"
    /\ LET r == ResponseJson(response)
       IN /\ parsed' = IF r.ok THEN r.value ELSE JsObject(JsUndefined)
          /\ fetchState' = IF r.ok THEN "fulfilled" ELSE "rejected"
          /\ pc' = "JsonResolved"
    /\ UNCHANGED <<now, production, cacheBuster, requests, response,
                   chainError, prodMode, bootstrapCalls, console, angular>>

\* .then((response) => response.json())
ThenJson ==
    /\ pc = "FetchResolved"
    /\ LET r == ResponseJson(response)
       IN IF r.ok
          THEN /\ parsed' = r.value
               /\ fetchState' = "fulfilled"
               /\ pc' = "JsonResolved"
               /\ UNCHANGED chainError
          ELSE /\ chainError' = Err("SyntaxError", "Unexpected token")
               /\ fetchState' = "rejected"
               /\ pc' = "ChainRejected"
               /\ UNCHANGED parsed
    /\ UNCHANGED <<now, production, cacheBuster, requests, response, prodMode,
                   bootstrapCalls, console, angular>>

\* .then((settings: Settings) => { ... bootstrapModule(AppModule) ... });
\* enableProdMode() or platformBrowserDynamic() may throw, which rejects the
\* promise the outer catch is attached to
ThenBootstrap ==
    /\ pc = "JsonResolved"
    /\ prodMode' = production
    /\ \E threw \in BOOLEAN :
          IF threw
          THEN /\ chainError' = Err("Error", "platform setup failed")
               /\ pc' = "ChainRejected"
               /\ UNCHANGED <<bootstrapCalls, platformSettings>>
          ELSE /\ platformSettings' = parsed
               /\ bootstrapCalls' = bootstrapCalls + 1
               /\ pc' = "BootstrapInitiated"
               /\ UNCHANGED chainError
    /\ UNCHANGED <<now, production, cacheBuster, requests, fetchState,
                   response, parsed, console, settingsService, initializer,
                   bootstrapError, appComponent, booksService, booksRequests,
                   injected, client>>

\* CatchConfiguration with a retry: the failure is reported and the document
\* is requested again
CatchConfigurationRetry ==
    /\ pc = "ChainRejected"
    /\ console' = Append(console,
          [reporter |-> "configuration",
           text |-> "error loading the app's configuration: "
                      \o chainError.message])
    /\ IF Len(requests) < 2
       THEN /\ requests' = Append(requests, Request("fetch", now))
            /\ fetchState' = "pending"
            /\ pc' = "FetchPending"
       ELSE /\ pc' = "ConfigurationFailed"
            /\ UNCHANGED <<requests, fetchState>>
    /\ UNCHANGED <<now, production, cacheBuster, response, parsed,
                   chainError, prodMode, bootstrapCalls, angular>>

\* .catch((e) => console.error(`error loading the app's configuration: ...`))
CatchConfiguration ==
    /\ pc = "ChainRejected"
    /\ IF HasProperties(chainError)
       THEN /\ console' = Append(console,
                  [reporter |-> "configuration",
                   text |-> "error loading the app's configuration: "
                              \o MessageText(chainError)])
            /\ pc' = "ConfigurationFailed"
       ELSE \* reading e.message throws a TypeError inside the handler
            /\ pc' = "CatchThrew"
            /\ UNCHANGED console
    /\ UNCHANGED <<now, production, cacheBuster, requests, fetchState,
                   response, parsed, chainError, prodMode, bootstrapCalls,
                   angular>>

\* CatchBootstrap with a second attempt: the failure is reported and
\* bootstrapModule(AppModule) is called again
CatchBootstrapAgain ==
    /\ pc = "BootstrapRejected"
    /\ console' = Append(console,
          [reporter |-> "bootstrap", text |-> bootstrapError.message])
    /\ IF bootstrapCalls < 2
       THEN /\ bootstrapCalls' = bootstrapCalls + 1
            /\ pc' = "BootstrapInitiated"
       ELSE /\ pc' = "BootstrapFailed"
            /\ UNCHANGED bootstrapCalls
    /\ UNCHANGED <<now, production, cacheBuster, requests, fetchState,
                   response, parsed, chainError, prodMode, angular>>

\* bootstrapModule(AppModule).catch((err) => console.error(err))
CatchBootstrap ==
    /\ pc = "BootstrapRejected"
    /\ console' = Append(console,
          [reporter |-> "bootstrap", text |-> bootstrapError.message])
    /\ pc' = "BootstrapFailed"
    /\ UNCHANGED <<now, production, cacheBuster, requests, fetchState,
                   response, parsed, chainError, prodMode, bootstrapCalls,
                   angular>>

main == <<production, cacheBuster, fetchState, response, parsed, chainError,
          prodMode, bootstrapCalls, console>>

----------------------------------------------------------------------------
(* AppModule bootstrap *)

\* AppInitializer with a SettingsService that is not seeded from the SETTINGS
\* token (settings: Settings | undefined, no constructor argument)
AppInitializerUnseeded ==
    /\ pc = "BootstrapInitiated"
    /\ settingsService' = [constructed |-> TRUE, settings |-> JsUndefined]
    /\ initializer' = [constructed |-> TRUE, cacheBuster |-> now]
    /\ requests' = Append(requests, Request("HttpClient", now))
    /\ pc' = "InitializerPending"
    /\ UNCHANGED <<now, main, platformSettings, bootstrapError, appComponent,
                   booksService, booksRequests, injected, client>>

\* AppInitializer whose factory does not return the promise
\* (() => { service.initializeSettings(); }): the bootstrap does not wait
AppInitializerNoWait ==
    /\ pc = "BootstrapInitiated"
    /\ settingsService' = [constructed |-> TRUE, settings |-> platformSettings]
    /\ initializer' = [constructed |-> TRUE, cacheBuster |-> now]
    /\ requests' = Append(requests, Request("HttpClient", now))
    /\ pc' = "InitializersDone"
    /\ UNCHANGED <<now, main, platformSettings, bootstrapError, appComponent,
                   booksService, booksRequests, injected, client>>

\* APP_INITIALIZER: the factory's dependency SettingsInitializerService is
\* constructed (and with it SettingsService, from the SETTINGS token), then
\* initializeSettings() issues its request
AppInitializer ==
    /\ pc = "BootstrapInitiated"
    /\ settingsService' = [constructed |-> TRUE, settings |-> platformSettings]
    /\ initializer' = [constructed |-> TRUE, cacheBuster |-> now]
    /\ requests' = Append(requests, Request("HttpClient", now))
    /\ pc' = "InitializerPending"
    /\ UNCHANGED <<now, main, platformSettings, bootstrapError, appComponent,
                   booksService, booksRequests, injected, client>>

\* initializeSettings(): the request succeeds and
\* this.settings.settings = response
InitializeSettingsThen ==
    /\ pc = "InitializerPending"
    /\ \E status \in Statuses, body \in Bodies :
          LET r == HttpClientGet(status, body)
          IN /\ r.ok
             /\ settingsService' = [settingsService EXCEPT !.settings = r.value]
    /\ requests' = Settle(requests, Len(requests))
    /\ pc' = "InitializersDone"
    /\ UNCHANGED <<now, main, platformSettings, initializer, bootstrapError,
                   appComponent, booksService, booksRequests, injected, client>>

\* InitializeSettingsReject with the assignment made before the outcome is
\* known: the settings are cleared when the request is answered with an error
InitializeSettingsRejectAssign ==
    /\ pc = "InitializerPending"
    /\ bootstrapError' = Err("HttpErrorResponse",
          "Http failure response for assets/settings.json: 0 Unknown Error")
    /\ settingsService' = [settingsService EXCEPT !.settings = JsNull]
    /\ requests' = Settle(requests, Len(requests))
    /\ pc' = "BootstrapRejected"
    /\ UNCHANGED <<now, main, platformSettings, initializer, appComponent,
                   booksService, booksRequests, injected, client>>

\* InitializeSettingsReject with the failure swallowed: the returned promise
\* resolves (initializeSettings().catch(() => {})) and the bootstrap goes on
InitializeSettingsRejectSwallow ==
    /\ pc = "InitializerPending"
    /\ bootstrapError' = Err("HttpErrorResponse",
          "Http failure response for assets/settings.json: 0 Unknown Error")
    /\ requests' = Settle(requests, Len(requests))
    /\ pc' = "InitializersDone"
    /\ UNCHANGED <<now, main, platformSettings, settingsService, initializer,
                   appComponent, booksService, booksRequests, injected, client>>

\* initializeSettings(): the request fails (network, status, parse), the
\* returned promise rejects and so does bootstrapModule
InitializeSettingsReject ==
    /\ pc = "InitializerPending"
    /\ \/ bootstrapError' = Err("HttpErrorResponse",
              "Http failure response for assets/settings.json: 0 Unknown Error")
       \/ \E status \in Statuses, body \in Bodies :
             /\ ~HttpClientGet(status, body).ok
             /\ bootstrapError' = Err("HttpErrorResponse",
                   IF status < 200 \/ status >= 300
                   THEN "Http failure response for assets/settings.json"
                   ELSE "Http failure during parsing for assets/settings.json")
    /\ requests' = Settle(requests, Len(requests))
    /\ pc' = "BootstrapRejected"
    /\ UNCHANGED <<now, main, platformSettings, settingsService, initializer,
                   appComponent, booksService, booksRequests, injected, client>>

\* bootstrap: [AppComponent]: BooksService and AppComponent are constructed;
\* the constructor reads settingsService.settings and calls booksGet()
BootstrapAppComponent ==
    /\ pc = "InitializersDone"
    /\ LET service == [constructed |-> TRUE,
                       basePath |-> BooksServiceConstructor(
                                       injectedConfiguration, injectedBasePath)]
       IN /\ booksService' = service
          /\ booksRequests' = Append(booksRequests, booksGet(service))
          /\ booksSent' = Append(booksSent,
                                 Sent("booksGet", defaultHeaders, credential))
          /\ booksCall' = [op |-> "booksGet", args |-> NoArgs]
    /\ appComponent' = [constructed |-> TRUE,
                        settings |-> settingsService.settings]
    /\ pc' = "Running"
    /\ UNCHANGED <<now, main, requests, platformSettings, settingsService,
                   initializer, bootstrapError, injected, defaultHeaders,
                   credential, booksError>>

----------------------------------------------------------------------------
(* The handler of the outer .catch on its own: the chain has been rejected  *)
(* with any value                                                           *)

RejectionValues ==
    {Err("TypeError", "Failed to fetch"), Err("SyntaxError", "Unexpected token"),
     Err("Error", "platform setup failed"), Err("Error", ""),
     RejectObject, RejectNull, RejectUndefined}

InitCatch ==
    /\ pc = "ChainRejected"
    /\ now \in 0..MaxTime
    /\ cacheBuster \in 0..MaxTime
    /\ cacheBuster <= now
    /\ production \in BOOLEAN
    /\ requests = <<[Request("fetch", cacheBuster) EXCEPT !.settled = TRUE]>>
    /\ chainError \in RejectionValues
    /\ response \in {NoResponse}
                      \cup [status : Statuses, body : Bodies]
    /\ LET loaded == response # NoResponse /\ ResponseJson(response).ok
       IN /\ fetchState = IF loaded THEN "fulfilled" ELSE "rejected"
          /\ parsed = IF loaded THEN ResponseJson(response).value
                                ELSE JsUndefined
          /\ prodMode = (loaded /\ production)
    /\ bootstrapCalls = 0
    /\ platformSettings = JsUndefined
    /\ settingsService = [constructed |-> FALSE, settings |-> JsUndefined]
    /\ initializer = [constructed |-> FALSE, cacheBuster |-> 0]
    /\ bootstrapError = NoError
    /\ appComponent = [constructed |-> FALSE, settings |-> JsUndefined]
    /\ booksService = [constructed |-> FALSE, basePath |-> ""]
    /\ booksRequests = <<>>
    /\ injectedConfiguration = JsUndefined
    /\ injectedBasePath = BASE_PATH
    /\ defaultHeaders = {}
    /\ credential = JsUndefined
    /\ booksSent = <<>>
    /\ booksError = NoError
    /\ booksCall = NoCall
    /\ console = <<>>

NextCatch ==
    CatchConfiguration

SpecCatch == InitCatch /\ [][NextCatch]_vars

----------------------------------------------------------------------------
(* BooksService on its own: the injector holds any Configuration and any    *)
(* BASE_PATH                                                                *)

MaxItems == 2

BasePathTexts == {"", UrlA, UrlB}

ConfigurationBasePaths ==
    {JsUndefined, JsNull, JsNumber("42")}
       \cup {JsString(x) : x \in BasePathTexts}

BasePathValues ==
    {BasePathNull, BasePathNumber}
       \cup {BasePathString(x) : x \in BasePathTexts}
       \cup {BasePathArray(xs) :
               xs \in UNION {[1..n -> BasePathTexts] : n \in 0..MaxItems}}

InitBooks ==
    /\ pc = "BooksInjected"
    /\ now = 0
    /\ production = FALSE
    /\ cacheBuster = 0
    /\ requests = <<>>
    /\ fetchState = "idle"
    /\ response = NoResponse
    /\ parsed = JsUndefined
    /\ chainError = NoError
    /\ prodMode = FALSE
    /\ bootstrapCalls = 0
    /\ platformSettings = JsUndefined
    /\ settingsService = [constructed |-> FALSE, settings |-> JsUndefined]
    /\ initializer = [constructed |-> FALSE, cacheBuster |-> 0]
    /\ bootstrapError = NoError
    /\ appComponent = [constructed |-> FALSE, settings |-> JsUndefined]
    /\ booksService = [constructed |-> FALSE, basePath |-> ""]
    /\ booksRequests = <<>>
    /\ injectedConfiguration \in ConfigurationBasePaths
    /\ injectedBasePath \in BasePathValues
    /\ defaultHeaders = {}
    /\ credential = JsUndefined
    /\ booksSent = <<>>
    /\ booksError = NoError
    /\ booksCall = NoCall
    /\ console = <<>>

\* new BooksService(httpClient, basePath, configuration)
BooksConstruct ==
    /\ pc = "BooksInjected"
    /\ booksService' = [constructed |-> TRUE,
                        basePath |-> BooksServiceConstructor(
                                        injectedConfiguration, injectedBasePath)]
    /\ pc' = "BooksConstructed"
    /\ UNCHANGED <<now, main, requests, platformSettings, settingsService,
                   initializer, bootstrapError, appComponent, booksRequests,
                   injected, client>>

\* one call of an operation on the constructed service: the tests of the
\* required parameters, then the request
BooksCall(op, args) ==
    /\ pc = "BooksConstructed"
    /\ booksCall' = [op |-> op, args |-> args]
    /\ LET missing == MissingParameter(op, args)
       IN IF missing # ""
          THEN /\ booksError' = RequiredParameterError(missing, op)
               /\ UNCHANGED <<booksRequests, booksSent>>
          ELSE /\ Len(booksRequests) < MaxItems
               /\ booksRequests' = Append(booksRequests,
                                          Url(booksService, op, args))
               /\ booksSent' = Append(booksSent,
                                      Sent(op, defaultHeaders, credential))
               /\ booksError' = NoError
    /\ UNCHANGED <<pc, now, main, requests, platformSettings, settingsService,
                   initializer, bootstrapError, appComponent, booksService,
                   injected, defaultHeaders, credential>>

\* booksGet() on the constructed service
BooksGet ==
    BooksCall("booksGet", NoArgs)

NextBooks ==
    \/ BooksConstruct
    \/ BooksGet

SpecBooks == InitBooks /\ [][NextBooks]_vars

----------------------------------------------------------------------------
(* Every operation of BooksService, called with any arguments                *)

IsbnValues == {JsUndefined, JsNull, JsString("9 8")}
BookValues == {JsUndefined, JsNull, JsObject(JsString("TLA+"))}
RatingValues == {JsUndefined, JsNull, JsNumber("5")}
SearchTermValues == {JsUndefined, JsNull, JsString("tla")}
Credentials == {JsUndefined, JsString(""), JsString("token")}

InitBooksCalls ==
    /\ pc = "BooksInjected"
    /\ now = 0
    /\ production = FALSE
    /\ cacheBuster = 0
    /\ requests = <<>>
    /\ fetchState = "idle"
    /\ response = NoResponse
    /\ parsed = JsUndefined
    /\ chainError = NoError
    /\ prodMode = FALSE
    /\ bootstrapCalls = 0
    /\ platformSettings = JsUndefined
    /\ settingsService = [constructed |-> FALSE, settings |-> JsUndefined]
    /\ initializer = [constructed |-> FALSE, cacheBuster |-> 0]
    /\ bootstrapError = NoError
    /\ appComponent = [constructed |-> FALSE, settings |-> JsUndefined]
    /\ booksService = [constructed |-> FALSE, basePath |-> ""]
    /\ booksRequests = <<>>
    /\ injectedConfiguration \in {JsUndefined, JsString(UrlA)}
    /\ injectedBasePath = BASE_PATH
    /\ defaultHeaders = {}
    /\ credential \in Credentials
    /\ booksSent = <<>>
    /\ booksError = NoError
    /\ booksCall = NoCall
    /\ console = <<>>

BooksDelete ==
    BooksCall("booksDelete", NoArgs)

BooksIsbnCheckGet ==
    \E isbn \in IsbnValues :
       BooksCall("booksIsbnCheckGet", [NoArgs EXCEPT !.isbn = isbn])

BooksIsbnDelete ==
    \E isbn \in IsbnValues :
       BooksCall("booksIsbnDelete", [NoArgs EXCEPT !.isbn = isbn])

BooksIsbnGet ==
    \E isbn \in IsbnValues :
       BooksCall("booksIsbnGet", [NoArgs EXCEPT !.isbn = isbn])

BooksIsbnPut ==
    \E isbn \in IsbnValues, book \in BookValues :
       BooksCall("booksIsbnPut",
                 [NoArgs EXCEPT !.isbn = isbn, !.book = book])

BooksIsbnRatePost ==
    \E isbn \in IsbnValues, rating \in RatingValues :
       BooksCall("booksIsbnRatePost",
                 [NoArgs EXCEPT !.isbn = isbn, !.rating = rating])

BooksPost ==
    \E book \in BookValues :
       BooksCall("booksPost", [NoArgs EXCEPT !.book = book])

BooksSearchSearchTermGet ==
    \E searchTerm \in SearchTermValues :
       BooksCall("booksSearchSearchTermGet",
                 [NoArgs EXCEPT !.searchTerm = searchTerm])

\* secureBooksGet with the headers of the call kept on the service:
\* this.defaultHeaders = localVarHeaders
SecureBooksGetKeepHeaders ==
    /\ pc = "BooksConstructed"
    /\ Len(booksRequests) < MaxItems
    /\ booksCall' = [op |-> "secureBooksGet", args |-> NoArgs]
    /\ booksRequests' = Append(booksRequests, secureBooksGet(booksService))
    /\ booksSent' = Append(booksSent,
                           Sent("secureBooksGet", defaultHeaders, credential))
    /\ defaultHeaders' = RequestHeaders("secureBooksGet", defaultHeaders,
                                        credential)
    /\ booksError' = NoError
    /\ UNCHANGED <<pc, now, main, requests, platformSettings, settingsService,
                   initializer, bootstrapError, appComponent, booksService,
                   injected, credential>>

SecureBooksGet ==
    BooksCall("secureBooksGet", NoArgs)

NextBooksCalls ==
    \/ BooksConstruct
    \/ BooksDelete
    \/ BooksGet
    \/ BooksIsbnCheckGet
    \/ BooksIsbnDelete
    \/ BooksIsbnGet
    \/ BooksIsbnPut
    \/ BooksIsbnRatePost
    \/ BooksPost
    \/ BooksSearchSearchTermGet
    \/ SecureBooksGet

SpecBooksCalls == InitBooksCalls /\ [][NextBooksCalls]_vars

----------------------------------------------------------------------------
(* The start-then-fetch design of the README: main.ts bootstraps at once,   *)
(* SettingsService.settings starts undefined and is filled by the           *)
(* APP_INITIALIZER, BASE_PATH comes from a factory reading                  *)
(* settings?.baseUrl                                                        *)

\* the BASE_PATH token has not been resolved yet
BasePathUnresolved == [t |-> "unresolved", items |-> <<>>]

\* useFactory: (service: SettingsService) => service.settings?.baseUrl
BasePathFactory(settings) ==
    IF settings.t \in {"undefined", "null"} THEN BasePathNull
    ELSE IF settings.bt = "string" THEN BasePathString(settings.bs)
    ELSE IF settings.bt = "number" THEN BasePathNumber
    ELSE BasePathNull

InitStartThenFetch ==
    /\ pc = "NotStarted"
    /\ now = 0
    /\ production \in BOOLEAN
    /\ cacheBuster = 0
    /\ requests = <<>>
    /\ fetchState = "idle"
    /\ response = NoResponse
    /\ parsed = JsUndefined
    /\ chainError = NoError
    /\ prodMode = FALSE
    /\ bootstrapCalls = 0
    /\ platformSettings = JsUndefined
    /\ settingsService = [constructed |-> FALSE, settings |-> JsUndefined]
    /\ initializer = [constructed |-> FALSE, cacheBuster |-> 0]
    /\ bootstrapError = NoError
    /\ appComponent = [constructed |-> FALSE, settings |-> JsUndefined]
    /\ booksService = [constructed |-> FALSE, basePath |-> ""]
    /\ booksRequests = <<>>
    /\ injectedConfiguration = JsUndefined
    /\ injectedBasePath = BasePathUnresolved
    /\ defaultHeaders = {}
    /\ credential = JsUndefined
    /\ booksSent = <<>>
    /\ booksError = NoError
    /\ booksCall = NoCall
    /\ console = <<>>

\* main.ts without the fetch: platformBrowserDynamic().bootstrapModule(AppModule)
StartBootstrap ==
    /\ pc = "NotStarted"
    /\ prodMode' = production
    /\ bootstrapCalls' = bootstrapCalls + 1
    /\ pc' = "BootstrapInitiated"
    /\ UNCHANGED <<now, production, cacheBuster, requests, fetchState,
                   response, parsed, chainError, console, angular>>

\* APP_INITIALIZER: SettingsService is constructed with settings undefined,
\* SettingsInitializerService is constructed and initializeSettings() issues
\* its request
AppInitializerUndefined ==
    /\ pc = "BootstrapInitiated"
    /\ settingsService' = [constructed |-> TRUE, settings |-> JsUndefined]
    /\ initializer' = [constructed |-> TRUE, cacheBuster |-> now]
    /\ requests' = Append(requests, Request("HttpClient", now))
    /\ pc' = "InitializerPending"
    /\ UNCHANGED <<now, main, platformSettings, bootstrapError, appComponent,
                   booksService, booksRequests, injected, client>>

\* the injector evaluates the BASE_PATH factory, during initialization or
\* after it: the initializer "might or might not" have assigned the settings
ResolveBasePath ==
    /\ pc \in {"InitializerPending", "InitializersDone"}
    /\ injectedBasePath = BasePathUnresolved
    /\ injectedBasePath' = BasePathFactory(settingsService.settings)
    /\ UNCHANGED <<pc, now, main, requests, platformSettings, settingsService,
                   initializer, bootstrapError, appComponent, booksService,
                   booksRequests, injectedConfiguration, client>>

\* bootstrap: [AppComponent] with the resolved BASE_PATH
BootstrapAppComponentResolved ==
    /\ injectedBasePath # BasePathUnresolved
    /\ BootstrapAppComponent

NextStartThenFetch ==
    \/ Tick
    \/ StartBootstrap
    \/ AppInitializerUndefined
    \/ ResolveBasePath
    \/ InitializeSettingsThen
    \/ InitializeSettingsReject
    \/ BootstrapAppComponentResolved
    \/ CatchBootstrap

SpecStartThenFetch == InitStartThenFetch /\ [][NextStartThenFetch]_vars

----------------------------------------------------------------------------

Next ==
    \/ Tick
    \/ Start
    \/ FetchResolve
    \/ FetchReject
    \/ ThenJson
    \/ ThenBootstrap
    \/ CatchConfiguration
    \/ CatchBootstrap
    \/ AppInitializer
    \/ InitializeSettingsThen
    \/ InitializeSettingsReject
    \/ BootstrapAppComponent

Spec == Init /\ [][Next]_vars

----------------------------------------------------------------------------
(* Scheduling: the script runs, the main.ts fetch settles, and every promise *)
(* reaction that is ready is run.  Nothing makes the server answer the       *)
(* request of initializeSettings.                                            *)

SpecLive ==
    /\ Spec
    /\ WF_vars(Start)
    /\ WF_vars(FetchResolve \/ FetchReject)
    /\ WF_vars(ThenJson)
    /\ WF_vars(ThenBootstrap)
    /\ WF_vars(CatchConfiguration)
    /\ WF_vars(CatchBootstrap)
    /\ WF_vars(AppInitializer)
    /\ WF_vars(BootstrapAppComponent)

----------------------------------------------------------------------------
(* Properties *)

\* the Response of the main.ts fetch has arrived
Responded == response # NoResponse

\* the main.ts fetch was answered with a status outside 200..299
Non2xx == Responded /\ (response.status < 200 \/ response.status >= 300)

\* the main.ts chain and the bootstrap it started have come to rest
Halted == pc \in {"ConfigurationFailed", "BootstrapFailed", "Running"}

\* C1: bootstrapModule(AppModule) is initiated only in a step that starts
\* from a state in which fetch + response.json() has settled, successfully.
C1_BootstrapOnlyAfterFetch ==
    [][bootstrapCalls' # bootstrapCalls
          => /\ fetchState = "fulfilled"
             /\ requests[1].settled
             /\ parsed = ResponseJson(response).value]_vars

C1_Witness ==
    /\ pc = "BootstrapInitiated"
    /\ bootstrapCalls = 1
    /\ fetchState = "fulfilled"

\* C2: when the settings fetch fails (network error or HTTP 500),
\* bootstrapModule is never invoked and console.error receives exactly one
\* error, the one describing the failure.
C2_FailedFetchNeverBootstraps ==
    (chainError.name = "TypeError" \/ (Responded /\ response.status = 500))
       => /\ bootstrapCalls = 0
          /\ Len(console) <= 1
          /\ Halted => /\ Len(console) = 1
                       /\ console[1].reporter = "configuration"

\* C3: when the settings fetch is answered with a non-2xx status, the load
\* fails and no bootstrap step runs, whatever the body is.
C3_Non2xxFailsLoad ==
    Non2xx => /\ fetchState # "fulfilled"
              /\ bootstrapCalls = 0
              /\ ~settingsService.constructed

\* C4: when the body of the settings response is not valid JSON, the chain
\* takes the path of a transport failure: bootstrapModule is never invoked
\* and exactly one error, the configuration-load error, is reported.
C4_MalformedJsonFails ==
    (Responded /\ ~JSONParse(response.body).ok /\ pc # "FetchResolved")
       => /\ bootstrapCalls = 0
          /\ fetchState = "rejected"
          /\ pc \in {"ChainRejected", "ConfigurationFailed"}
          /\ Len(console) = IF pc = "ConfigurationFailed" THEN 1 ELSE 0
          /\ \A i \in 1..Len(console) : console[i].reporter = "configuration"

C4_Witness ==
    /\ Responded
    /\ ~JSONParse(response.body).ok
    /\ pc = "ConfigurationFailed"
    /\ Len(console) = 1

\* C5: for every valid payload {baseUrl: U} returned by the configuration
\* fetch, once bootstrap has completed SettingsService.settings and the
\* settings AppComponent has read are exactly that payload.
C5_ConsumersSeeLoadedSettings ==
    (pc = "Running" /\ Settings(parsed))
       => /\ settingsService.settings = parsed
          /\ appComponent.settings = parsed

\* C6: for every loaded settings value with baseUrl = U, after bootstrap the
\* base path of the REST client is U and booksGet() addresses U + "/books".
C6_BasePathIsLoadedBaseUrl ==
    (pc = "Running" /\ Settings(parsed))
       => /\ booksService.basePath = parsed.bs
          /\ booksRequests = <<parsed.bs \o "/books">>

\* C7: at most one request for assets/settings.json is issued in an
\* execution.
C7_SettingsRequestedOnce ==
    Len(requests) <= 1

\* C8: once SettingsService is constructed, no step changes its settings.
C8_SettingsWriteOnce ==
    [][settingsService.constructed
          => settingsService'.settings = settingsService.settings]_vars

\* C9: whenever SettingsService exists, so that a consumer can read the
\* Settings, its value is an object whose baseUrl is a string.
C9_SettingsFullyValid ==
    settingsService.constructed => Settings(settingsService.settings)

\* the process-level state of the main.ts chain
Phase(p) ==
    CASE p = "NotStarted" -> "NotStarted"
      [] p \in {"FetchPending", "FetchResolved", "JsonResolved"}
            -> "LoadingConfiguration"
      [] p \in {"ChainRejected", "ConfigurationFailed"} -> "ConfigurationFailed"
      [] p \in {"BootstrapInitiated", "InitializerPending", "InitializersDone"}
            -> "Bootstrapping"
      [] p \in {"BootstrapRejected", "BootstrapFailed"} -> "BootstrapFailed"
      [] p = "Running" -> "Running"

SpecTransitions ==
    { <<"NotStarted", "LoadingConfiguration">>,
      <<"LoadingConfiguration", "ConfigurationFailed">>,
      <<"LoadingConfiguration", "Bootstrapping">>,
      <<"Bootstrapping", "Running">> }

\* C10 as stated: every step keeps the phase or takes one of the transitions
\* NotStarted -> LoadingConfiguration -> (ConfigurationFailed |
\* Bootstrapping -> Running).
C10_LinearStateMachine ==
    [][Phase(pc') = Phase(pc) \/ <<Phase(pc), Phase(pc')>> \in SpecTransitions]_vars

\* C10, amended: every step keeps the phase or takes one of the transitions
\* NotStarted -> LoadingConfiguration -> (ConfigurationFailed |
\* Bootstrapping -> (Running | BootstrapFailed)); in particular no step
\* leaves ConfigurationFailed, Running or BootstrapFailed.
C10_LinearStateMachineWithBootstrapFailure ==
    [][\/ Phase(pc') = Phase(pc)
       \/ <<Phase(pc), Phase(pc')>>
             \in SpecTransitions \cup {<<"Bootstrapping", "BootstrapFailed">>}]_vars

C10_Witness ==
    /\ pc = "BootstrapFailed"
    /\ bootstrapCalls = 1
    /\ Len(console) = 1

\* C11: once bootstrapModule(AppModule) has rejected, the application is not
\* running and never will be (AppComponent is not constructed), and when the
\* inner catch has run console.error has received exactly that failure.
C11_BootstrapFailureReported ==
    bootstrapError # NoError
       => /\ pc \in {"BootstrapRejected", "BootstrapFailed"}
          /\ ~appComponent.constructed
          /\ pc = "BootstrapFailed"
                => console = <<[reporter |-> "bootstrap",
                                text |-> bootstrapError.message]>>
          /\ pc = "BootstrapRejected" => console = <<>>

C11_Witness ==
    /\ pc = "BootstrapFailed"
    /\ bootstrapError.name = "HttpErrorResponse"
    /\ Len(console) = 1
    /\ console[1].reporter = "bootstrap"

\* the settings requests that have been issued and have not settled
InFlight == {i \in 1..Len(requests) : ~requests[i].settled}

\* C12: once bootstrapModule has been called, startup waits for no HTTP
\* request: no settings request is in flight between the call and the
\* application running.
C12_NoSuspensionAfterBootstrap ==
    bootstrapCalls > 0 => InFlight = {}

\* C13: a settings request is issued only in a step that starts with every
\* earlier settings request settled, so at most one is in flight.
C13_NoConcurrentSettingsRequests ==
    [][/\ Len(requests') > Len(requests) => InFlight = {}
       /\ Cardinality({i \in 1..Len(requests') : ~requests'[i].settled}) <= 1]_vars

C13_Witness ==
    /\ Len(requests) = 2
    /\ requests[1].settled
    /\ ~requests[2].settled

\* C14: bootstrapModule(AppModule) is called at most once.
C14_BootstrapAtMostOnce ==
    bootstrapCalls <= 1

C14_Witness ==
    /\ bootstrapCalls = 1
    /\ pc = "BootstrapFailed"

\* C15: SettingsService is constructed only when the loaded value is already
\* registered under SETTINGS; its settings field starts as that value and is
\* undefined in no state.
C15_SettingsSeededBeforeConstruction ==
    [][/\ (~settingsService.constructed /\ settingsService'.constructed)
            => /\ fetchState = "fulfilled"
               /\ platformSettings = parsed
               /\ settingsService'.settings = parsed
               /\ ~appComponent.constructed /\ ~booksService.constructed
       /\ settingsService'.constructed
            => settingsService'.settings.t # "undefined"]_vars

C15_Witness ==
    /\ settingsService.constructed
    /\ pc = "InitializerPending"
    /\ settingsService.settings = parsed
    /\ Settings(parsed)

\* C16: whenever BooksService has been constructed from valid seeded
\* Settings, its base path is the seeded baseUrl, and it is neither the
\* default 'http://localhost' nor empty.
C16_BasePathIsSeededBaseUrl ==
    (booksService.constructed /\ Settings(platformSettings))
       => /\ booksService.basePath = platformSettings.bs
          /\ booksService.basePath \notin {DefaultBasePath, ""}

\* C18: after a settings request has failed (network error, non-2xx status
\* or unparseable body) no further settings request is issued and no
\* component is constructed.
C18_FailFastNoRetryNoFallback ==
    /\ (fetchState = "rejected" \/ Non2xx)
          => /\ Len(requests) = 1
             /\ ~settingsService.constructed
             /\ ~booksService.constructed
             /\ ~appComponent.constructed
    /\ bootstrapError # NoError
          => /\ Len(requests) = 2
             /\ ~booksService.constructed
             /\ ~appComponent.constructed

\* C20: AppComponent is constructed only in a step that starts with the
\* promise of initializeSettings resolved (its request settled, no
\* rejection), and the settings its constructor reads are the ones held by
\* SettingsService then, which are not undefined.
C20_AppComponentAfterInitializer ==
    [][(~appComponent.constructed /\ appComponent'.constructed)
          => /\ initializer.constructed
             /\ InFlight = {}
             /\ Len(requests) = 2
             /\ bootstrapError = NoError
             /\ appComponent'.settings = settingsService.settings
             /\ appComponent'.settings.t # "undefined"
             /\ pc' = "Running"]_vars

C20_Witness ==
    /\ pc = "Running"
    /\ appComponent.constructed
    /\ appComponent.settings = settingsService.settings
    /\ appComponent.settings # parsed

\* no base path has been defined for BooksService: the Configuration has no
\* string basePath and BASE_PATH is absent, of another type, or an empty
\* array
NoBasePathDefined ==
    /\ injectedConfiguration.t # "string"
    /\ \/ injectedBasePath.t \notin {"string", "array"}
       \/ injectedBasePath.t = "array" /\ Len(injectedBasePath.items) = 0

\* C19: a constructed BooksService has the base path 'http://localhost'
\* exactly when no base path has been defined.
C19_DefaultExactlyWhenUndefined ==
    booksService.constructed
       => (booksService.basePath = DefaultBasePath <=> NoBasePathDefined)

C19_Witness ==
    /\ pc = "BooksConstructed"
    /\ injectedConfiguration.t = "undefined"
    /\ injectedBasePath = BasePathArray(<<UrlA, UrlB>>)
    /\ booksService.basePath = UrlA

\* C17: in the start-then-fetch design the BASE_PATH factory can be
\* evaluated while initializeSettings has not yet assigned the settings; the
\* token is then undefined, it stays so, and a BooksService constructed with
\* it uses 'http://localhost'.
C17_FactoryBeforeInitializerFallsBack ==
    /\ (pc = "InitializerPending" /\ injectedBasePath # BasePathUnresolved)
          => injectedBasePath = BasePathNull
    /\ (booksService.constructed /\ injectedBasePath = BasePathNull)
          => /\ booksService.basePath = DefaultBasePath
             /\ booksRequests = <<"http://localhost/books">>

\* the settings were loaded with a valid baseUrl, and BooksService is on
\* 'http://localhost' all the same
C17_Witness ==
    /\ pc = "Running"
    /\ Settings(settingsService.settings)
    /\ settingsService.settings.bs = UrlA
    /\ injectedBasePath = BasePathNull
    /\ booksService.basePath = DefaultBasePath

\* C21: every settings request goes to assets/settings.json and no two
\* settings requests of the process carry the same cache-buster value.
C21_CacheBusterUnique ==
    \A i, j \in 1..Len(requests) :
       /\ requests[i].path = SettingsPath
       /\ i # j => requests[i].cacheBuster # requests[j].cacheBuster

\* C22: given that the main.ts fetch settles, the process eventually reaches
\* a terminal state (running, configuration failed or bootstrap failed) and
\* stays there.
C22_EventuallyTerminal ==
    <>[]Halted

\* C24: "error loading the app's configuration" is reported only when the
\* settings fetch or its JSON parsing failed.
C24_ConfigurationErrorOnlyForLoadFailure ==
    \A i \in 1..Len(console) :
       console[i].reporter = "configuration" => fetchState = "rejected"

\* C25: when the request of initializeSettings has failed, bootstrapModule
\* has rejected and SettingsService.settings still holds the value it was
\* constructed with; it holds another value only after a successful response.
C25_FailedInitializerLeavesSettings ==
    /\ bootstrapError # NoError
          => /\ pc \in {"BootstrapRejected", "BootstrapFailed"}
             /\ settingsService.settings = platformSettings
    /\ (settingsService.constructed
           /\ settingsService.settings # platformSettings)
          => /\ bootstrapError = NoError
             /\ pc \in {"InitializersDone", "Running"}

C25_Witness ==
    /\ pc = "BootstrapFailed"
    /\ bootstrapError.name = "HttpErrorResponse"
    /\ settingsService.constructed
    /\ Settings(settingsService.settings)
    /\ settingsService.settings = platformSettings

C27_ConfigurationBasePathFirst ==
    booksService.constructed
       => /\ injectedConfiguration.t = "string"
                => booksService.basePath = injectedConfiguration.s
          /\ (injectedConfiguration.t # "string"
                 /\ injectedBasePath.t = "string")
                => booksService.basePath = injectedBasePath.items[1]
          /\ (injectedConfiguration.t # "string"
                 /\ injectedBasePath.t = "array"
                 /\ Len(injectedBasePath.items) > 0)
                => booksService.basePath = injectedBasePath.items[1]

C27_Witness ==
    /\ booksService.constructed
    /\ injectedConfiguration.t = "string"
    /\ injectedBasePath.t = "string"
    /\ injectedBasePath.items[1] # injectedConfiguration.s
    /\ booksService.basePath = injectedConfiguration.s

\* the parameters the operations declare as required
Requires(op, p) ==
    \/ p = "isbn" /\ op \in {"booksIsbnCheckGet", "booksIsbnDelete",
                             "booksIsbnGet", "booksIsbnPut",
                             "booksIsbnRatePost"}
    \/ p = "book" /\ op \in {"booksIsbnPut", "booksPost"}
    \/ p = "rating" /\ op = "booksIsbnRatePost"
    \/ p = "searchTerm" /\ op = "booksSearchSearchTermGet"

\* C28 as stated: a call of an operation in which a required parameter is
\* null or undefined throws an Error naming that parameter and the operation
\* and issues no HTTP request.
C28_RequiredParameterNamed ==
    [][pc = "BooksConstructed"
         => \A p \in ParameterNames :
               (Requires(booksCall'.op, p)
                  /\ IsNullOrUndefined(booksCall'.args[p]))
                  => /\ booksError'
                          = RequiredParameterError(p, booksCall'.op)
                     /\ UNCHANGED <<booksRequests, booksSent>>]_vars

\* C28 amended: a call of an operation in which a required parameter is null
\* or undefined throws an Error naming the operation and the first, in the
\* order of the parameter list (isbn before book and rating), of its required
\* parameters that is null or undefined, and issues no HTTP request.
C28_FirstMissingParameterNamed ==
    [][pc = "BooksConstructed"
         => LET op == booksCall'.op
                absent == {p \in ParameterNames :
                             /\ Requires(op, p)
                             /\ IsNullOrUndefined(booksCall'.args[p])}
            IN absent # {}
                 => /\ UNCHANGED <<booksRequests, booksSent>>
                    /\ \E p \in absent :
                          /\ "isbn" \in absent => p = "isbn"
                          /\ booksError' = RequiredParameterError(p, op)]_vars

C28_Witness ==
    /\ booksCall.op = "booksIsbnPut"
    /\ booksCall.args.isbn = JsString("9 8")
    /\ booksCall.args.book = JsNull
    /\ booksError = Err("Error",
          "Required parameter book was null or undefined when calling booksIsbnPut.")
    /\ booksRequests = <<>>

\* C29: no operation changes configuration.basePath or defaultHeaders; every
\* request is addressed to the base path fixed at construction followed by
\* the path of the operation, and carries only the headers set for its own
\* call (Accept, Content-Type, Authorization), none of an earlier call.
C29_OperationsLeaveServiceUnchanged ==
    [][pc = "BooksConstructed"
         => /\ defaultHeaders' = defaultHeaders
            /\ booksService' = booksService
            /\ Len(booksRequests') > Len(booksRequests)
                  => LET n == Len(booksRequests')
                         op == booksCall'.op
                     IN /\ n = Len(booksRequests) + 1
                        /\ \A i \in 1..Len(booksRequests) :
                              /\ booksRequests'[i] = booksRequests[i]
                              /\ booksSent'[i] = booksSent[i]
                        /\ booksRequests'[n]
                             = Url(booksService, op, booksCall'.args)
                        /\ booksSent'[n].op = op
                        /\ HeaderNames(booksSent'[n].headers)
                             = {"Accept"}
                                 \cup (IF op \in {"booksIsbnPut",
                                                  "booksIsbnRatePost",
                                                  "booksPost"}
                                       THEN {"Content-Type"} ELSE {})
                                 \cup (IF op = "secureBooksGet"
                                            /\ credential \notin
                                                 {JsUndefined, JsString("")}
                                       THEN {"Authorization"} ELSE {})]_vars

C29_Witness ==
    /\ Len(booksSent) = 2
    /\ booksSent[1].op = "secureBooksGet"
    /\ "Authorization" \in HeaderNames(booksSent[1].headers)
    /\ booksSent[2].op = "booksPost"
    /\ HeaderNames(booksSent[2].headers) = {"Accept", "Content-Type"}
    /\ booksRequests[2] = booksService.basePath \o "/books"
    /\ defaultHeaders = {}

\* C30: an Authorization header is sent only by secureBooksGet and only when
\* the Auth0 credential looked up is non-empty, and then it is the bearer
\* token; no other operation sends one.
C30_AuthorizationOnlyOnSecureBooksGet ==
    \A i \in 1..Len(booksSent) :
       "Authorization" \in HeaderNames(booksSent[i].headers)
          => /\ booksSent[i].op = "secureBooksGet"
             /\ credential.t = "string"
             /\ credential.s # ""
             /\ <<"Authorization", "Bearer " \o credential.s>>
                   \in booksSent[i].headers

C30_Witness ==
    /\ Len(booksSent) = 2
    /\ booksSent[1].op = "booksGet"
    /\ "Authorization" \notin HeaderNames(booksSent[1].headers)
    /\ booksSent[2].op = "secureBooksGet"
    /\ <<"Authorization", "Bearer token">> \in booksSent[2].headers

====
